---- MODULE Spec2Model ----
(***************************************************************************)
(* Phase II todo service: registration, login, bearer-token verification   *)
(* and the task CRUD endpoints with per-user isolation.                   *)
(*                                                                         *)
(* Time is counted in ticks of 1/TicksPerSecond second.  Text fields       *)
(* (title, description) are represented by their length.                  *)
(*                                                                         *)
(* The Phase I console application's in-memory TaskManager is modelled     *)
(* next to it, in variables of its own.                                    *)
(***************************************************************************)
EXTENDS Integers, Sequences, FiniteSets, TLC

VARIABLES
    users,     \* the users table: id -> row
    tasks,     \* the tasks table: id -> row
    nextId,    \* next value of the tasks id sequence
    usedIds,   \* history: every id a task was ever given
    issued,    \* history: every token issued, with the tick of issue
    clock,     \* the wall clock (UTC), in ticks
    last,      \* the last request served, its answer and the steps it ran
    sessions,  \* requests in flight: what each has read and not yet committed
    manager,   \* Phase I: the TaskManager object (tasks, next_task_id)
    called     \* Phase I: the last call on the manager, what it returned or raised

vars ==
    <<users, tasks, nextId, usedIds, issued, clock, last, sessions, manager,
      called>>

(***************************************************************************)
(* Bounds of the model.                                                    *)
(***************************************************************************)
MaxTasks == 2          \* rows the tasks sequence hands out at most
MaxClock == 1          \* ticks the clock advances at most, one tick at a time
MaxSkew == 3           \* ticks the clock runs past a token lifetime (SpecToken)
MaxSessions == 2       \* requests in flight at the same time at most
TicksPerSecond == 2    \* resolution of the clock below one second

(***************************************************************************)
(* Program constants.                                                      *)
(***************************************************************************)
ACCESS_TOKEN_EXPIRE_DAYS == 7
SecondsPerDay == 86400
TitleMinLength == 1
TitleMaxLength == 200
DescriptionMaxLength == 1000
HTTP_200_OK == 200
HTTP_201_CREATED == 201
HTTP_204_NO_CONTENT == 204
HTTP_400_BAD_REQUEST == 400
HTTP_401_UNAUTHORIZED == 401
HTTP_403_FORBIDDEN == 403
HTTP_404_NOT_FOUND == 404
HTTP_422_UNPROCESSABLE == 422
HTTP_500_INTERNAL == 500

(***************************************************************************)
(* Input universes.                                                        *)
(***************************************************************************)
UserIds == {"usr_1", "usr_2"}
RawEmails == {"a@x.com", "a@X.com", "b@x.com"}
Passwords == {"password1", "password2"}
Names == {"A"}
Salts == {"s1", "s2"}
TaskIds == 1..MaxTasks
SessionIds == 1..MaxSessions

Absent == "-"          \* a string that is not there (None, a missing claim)
None == << >>          \* Optional[...] without a value
Some(v) == <<v>>       \* Optional[...] with value v

TokenLifetime == ACCESS_TOKEN_EXPIRE_DAYS * SecondsPerDay * TicksPerSecond

(***************************************************************************)
(* Conversions.                                                            *)
(***************************************************************************)
\* EmailStr: the address as the request model hands it to the handler
\* (the domain part is lower-cased, the local part is kept).
EmailStr(raw) == IF raw = "a@X.com" THEN "a@x.com" ELSE raw

\* datetime -> integer seconds (calendar.timegm of the time tuple): truncates.
timegm(t) == t \div TicksPerSecond

\* isoformat() followed by replace('+00:00', 'Z'): an aware datetime prints
\* with the offset, which becomes Z; a naive one prints without offset.
IsoZ(t, aware) == [t |-> t, suffix |-> IF aware THEN "Z" ELSE ""]

(***************************************************************************)
(* utils/auth_utils.py                                                     *)
(***************************************************************************)
hash_password(password, salt) == [salt |-> salt, digest |-> <<salt, password>>]

verify_password(plain_password, hashed_password) ==
    hashed_password.digest = <<hashed_password.salt, plain_password>>

NoToken == [sig |-> "none", sub |-> Absent, exp |-> 0, iat |-> 0]

\* The expiry set to the time of issue (the timedelta left out).
create_access_token_no_lifetime(user_id, now) ==
    [sig |-> "good", sub |-> user_id, exp |-> timegm(now), iat |-> timegm(now)]

create_access_token(user_id, now) ==
    [sig |-> "good", sub |-> user_id,
     exp |-> timegm(now + TokenLifetime), iat |-> timegm(now)]

(***************************************************************************)
(* Responses.                                                              *)
(***************************************************************************)
Details(user_id, task_id, email) ==
    [user_id |-> user_id, task_id |-> task_id, email |-> email]

NoDetails == Details(Absent, None, Absent)

NoUser == [id |-> Absent, email |-> Absent, name |-> Absent,
           created_at |-> IsoZ(0, FALSE)]

ErrorResponse(status, code, message, details, now) ==
    [status |-> status, shape |-> "error", code |-> code, message |-> message,
     details |-> details, timestamp |-> IsoZ(now, TRUE),
     tasks |-> << >>, user |-> NoUser, token |-> NoToken]

TaskListResponse(status, shape, ts) ==
    [status |-> status, shape |-> shape, code |-> Absent, message |-> Absent,
     details |-> NoDetails, timestamp |-> IsoZ(0, FALSE),
     tasks |-> ts, user |-> NoUser, token |-> NoToken]

AuthResponse(status, user, token) ==
    [status |-> status, shape |-> "auth", code |-> Absent, message |-> Absent,
     details |-> NoDetails, timestamp |-> IsoZ(0, FALSE),
     tasks |-> << >>, user |-> user, token |-> token]

\* The part of an error body that does not depend on the time of the request.
SansTimestamp(resp) == [resp EXCEPT !.timestamp = IsoZ(0, FALSE)]

(***************************************************************************)
(* middleware/auth.py                                                      *)
(***************************************************************************)
\* A decode that verifies the signature and not the expiry.
jwt_decode_no_exp(token, now) == token.sig = "good"

\* jose.jwt.decode: signature, then the registered claims; exp is compared
\* in whole seconds and the token is expired when exp < now.

jwt_decode(token, now) == token.sig = "good" /\ ~(token.exp < timegm(now))

get_current_user(token, now) ==
    IF ~jwt_decode(token, now)
    THEN [ok |-> FALSE, user_id |-> Absent,
          resp |-> ErrorResponse(HTTP_401_UNAUTHORIZED, "AUTH_TOKEN_INVALID",
                       "Invalid or expired authentication token", NoDetails, now)]
    ELSE IF token.sub = Absent
    THEN [ok |-> FALSE, user_id |-> Absent,
          resp |-> ErrorResponse(HTTP_401_UNAUTHORIZED, "AUTH_TOKEN_INVALID",
                       "Invalid authentication token", NoDetails, now)]
    ELSE [ok |-> TRUE, user_id |-> token.sub,
          resp |-> ErrorResponse(0, Absent, Absent, NoDetails, 0)]

(***************************************************************************)
(* routes/auth.py                                                          *)
(***************************************************************************)
UserByEmail(db, email) == {u \in DOMAIN db : db[u].email = email}

UserDict(user) ==
    [id |-> user.id, email |-> user.email, name |-> user.name,
     created_at |-> IsoZ(user.created_at, FALSE)]

\* An exception no handler catches: the framework answers 500 and the
\* session is discarded without a commit.
Unhandled(exception) ==
    [status |-> HTTP_500_INTERNAL, shape |-> "unhandled", code |-> exception,
     message |-> Absent, details |-> NoDetails, timestamp |-> IsoZ(0, FALSE),
     tasks |-> << >>, user |-> NoUser, token |-> NoToken]

\* db.add(user); db.commit(): the insert fails on the primary key (id) and
\* on the unique index (email); an empty result stands for the failure.
commit_user(db, user) ==
    IF user.id \in DOMAIN db \/ UserByEmail(db, user.email) # {}
    THEN {}
    ELSE {[u \in DOMAIN db \cup {user.id} |-> IF u = user.id THEN user ELSE db[u]]}

EmailExists(email, now) ==
    ErrorResponse(HTTP_400_BAD_REQUEST, "AUTH_EMAIL_EXISTS",
                  "An account with this email already exists",
                  Details(Absent, None, email), now)

\* What register does once the email was found to be free.
register_insert(db, email, password, name, new_id, salt, now) ==
    LET user == [id |-> new_id, email |-> email, name |-> name,
                 password_hash |-> hash_password(password, salt),
                 created_at |-> now]
        saved == commit_user(db, user)
    IN IF saved = {}
       THEN [resp |-> Unhandled("IntegrityError"), users |-> db,
             trace |-> <<"select_user", "hash_password", "commit_failed">>]
       ELSE [resp |-> AuthResponse(HTTP_201_CREATED, UserDict(user),
                                   create_access_token(user.id, now)),
             users |-> CHOOSE d \in saved : TRUE,
             trace |-> <<"select_user", "hash_password", "commit",
                         "create_access_token">>]

\* register without the lookup of the email.
register_no_email_check(db, email, password, name, new_id, salt, now) ==
    register_insert(db, email, password, name, new_id, salt, now)

\* new_id is what generate_user_id() draws, salt what bcrypt.gensalt() draws.
register(db, email, password, name, new_id, salt, now) ==
    IF UserByEmail(db, email) # {}
    THEN [resp |-> EmailExists(email, now), users |-> db,
          trace |-> <<"select_user">>]
    ELSE register_insert(db, email, password, name, new_id, salt, now)

InvalidCredentials(now) ==
    ErrorResponse(HTTP_401_UNAUTHORIZED, "AUTH_INVALID_CREDENTIALS",
                  "Invalid email or password", NoDetails, now)

\* A login that tells an unknown email apart from a wrong password.
login_reveals_unknown_email(db, email, password, now) ==
    LET found == UserByEmail(db, email) IN
    IF found = {}
    THEN [resp |-> ErrorResponse(HTTP_404_NOT_FOUND, "AUTH_USER_NOT_FOUND",
                       "No account with this email", NoDetails, now),
          trace |-> <<"select_user">>]
    ELSE LET user == db[CHOOSE u \in found : TRUE] IN
         IF ~verify_password(password, user.password_hash)
         THEN [resp |-> InvalidCredentials(now),
               trace |-> <<"select_user", "verify_password">>]
         ELSE [resp |-> AuthResponse(HTTP_200_OK, UserDict(user),
                                     create_access_token(user.id, now)),
               trace |-> <<"select_user", "verify_password",
                           "create_access_token">>]

\* A login that puts the email of the user into the token's sub claim.
login_subject_is_email(db, email, password, now) ==
    LET found == UserByEmail(db, email) IN
    IF found = {}
    THEN [resp |-> InvalidCredentials(now), trace |-> <<"select_user">>]
    ELSE LET user == db[CHOOSE u \in found : TRUE] IN
         IF ~verify_password(password, user.password_hash)
         THEN [resp |-> InvalidCredentials(now),
               trace |-> <<"select_user", "verify_password">>]
         ELSE [resp |-> AuthResponse(HTTP_200_OK, UserDict(user),
                                     create_access_token(user.email, now)),
               trace |-> <<"select_user", "verify_password",
                           "create_access_token">>]

\* `not user or not verify_password(...)`: the right operand is evaluated
\* only when a user was found.
login(db, email, password, now) ==
    LET found == UserByEmail(db, email) IN
    IF found = {}
    THEN [resp |-> InvalidCredentials(now), trace |-> <<"select_user">>]
    ELSE LET user == db[CHOOSE u \in found : TRUE] IN
         IF ~verify_password(password, user.password_hash)
         THEN [resp |-> InvalidCredentials(now),
               trace |-> <<"select_user", "verify_password">>]
         ELSE [resp |-> AuthResponse(HTTP_200_OK, UserDict(user),
                                     create_access_token(user.id, now)),
               trace |-> <<"select_user", "verify_password",
                           "create_access_token">>]

(***************************************************************************)
(* routes/tasks.py                                                         *)
(***************************************************************************)
\* A request model whose max_length is exclusive.
CreateTaskRequest_exclusive_max(title, description) ==
    /\ title # None
    /\ TitleMinLength <= title[1] /\ title[1] < TitleMaxLength
    /\ description # None => description[1] < DescriptionMaxLength

\* Field(min_length=1, max_length=200) and Field(default="", max_length=1000):
\* an absent description takes the default, the empty string.
CreateTaskRequest(title, description) ==
    /\ title # None
    /\ TitleMinLength <= title[1] /\ title[1] <= TitleMaxLength
    /\ description # None => description[1] <= DescriptionMaxLength

UpdateTaskRequest(title, description, completed) ==
    /\ title # None => TitleMinLength <= title[1] /\ title[1] <= TitleMaxLength
    /\ description # None => description[1] <= DescriptionMaxLength

\* The framework's answer to a body the request model rejects.
RequestValidationError ==
    [status |-> HTTP_422_UNPROCESSABLE, shape |-> "validation",
     code |-> "ValidationError", message |-> Absent, details |-> NoDetails,
     timestamp |-> IsoZ(0, FALSE), tasks |-> << >>, user |-> NoUser,
     token |-> NoToken]

serialize_task(task) ==
    [id |-> task.id, user_id |-> task.user_id, title |-> task.title,
     description |-> task.description, completed |-> task.completed,
     created_at |-> IsoZ(task.created_at, TRUE),
     updated_at |-> IsoZ(task.updated_at, TRUE)]

Forbidden(message, user_id, now) ==
    ErrorResponse(HTTP_403_FORBIDDEN, "FORBIDDEN", message,
                  Details(user_id, None, Absent), now)

TaskNotFound(task_id, now) ==
    ErrorResponse(HTTP_404_NOT_FOUND, "TASK_NOT_FOUND", "Task not found",
                  Details(Absent, Some(task_id), Absent), now)

\* The path check left out of a handler.
NotOwnPathUnchecked(user_id, current_user) == FALSE

\* if user_id != current_user: raise 403
NotOwnPath(user_id, current_user) == user_id # current_user

\* The lookup by id alone, without the owner condition.
SelectTaskAnyOwner(store, task_id, user_id) ==
    {i \in DOMAIN store : i = task_id}

\* select(Task).where(Task.id == task_id).where(Task.user_id == user_id)
SelectTask(store, task_id, user_id) ==
    {i \in DOMAIN store : i = task_id /\ store[i].user_id = user_id}

\* The listing query ordered by created_at ascending (.desc() left out).
SelectTasksAscending(store, user_id) ==
    LET mine == {i \in DOMAIN store : store[i].user_id = user_id}
        n == Cardinality(mine)
    IN {[k \in 1..n |-> store[f[k]]] :
          f \in {g \in [1..n -> mine] :
                   /\ \A a, b \in 1..n : a # b => g[a] # g[b]
                   /\ \A a, b \in 1..n :
                        a < b => store[g[a]].created_at <= store[g[b]].created_at}}

\* select(Task).where(Task.user_id == user_id).order_by(Task.created_at.desc()):
\* every order of the owner's rows in which created_at never increases (rows
\* with equal created_at come in an order the database chooses).
SelectTasksOrdered(store, user_id) ==
    LET mine == {i \in DOMAIN store : store[i].user_id = user_id}
        n == Cardinality(mine)
    IN {[k \in 1..n |-> store[f[k]]] :
          f \in {g \in [1..n -> mine] :
                   /\ \A a, b \in 1..n : a # b => g[a] # g[b]
                   /\ \A a, b \in 1..n :
                        a < b => store[g[a]].created_at >= store[g[b]].created_at}}

\* An id computed as the largest id in the table plus one.
tasks_id_max_plus_one(seq, store) ==
    IF DOMAIN store = {} THEN 1
    ELSE (CHOOSE i \in DOMAIN store : \A j \in DOMAIN store : j <= i) + 1

\* The id the tasks table's sequence gives a row inserted with id=None.
tasks_id_seq(seq, store) == seq

Put(store, task) ==
    [i \in DOMAIN store \cup {task.id} |-> IF i = task.id THEN task ELSE store[i]]

Remove(store, task_id) == [i \in DOMAIN store \ {task_id} |-> store[i]]

Outcome(resp, store, trace) == [resp |-> resp, tasks |-> store, trace |-> trace]

\* rows is the result the database returns for the listing query.
list_tasks(store, user_id, current_user, rows, now) ==
    IF NotOwnPath(user_id, current_user)
    THEN Outcome(Forbidden("You can only access your own tasks", user_id, now),
                 store, <<"authorize">>)
    ELSE Outcome(TaskListResponse(HTTP_200_OK, "list",
                     [k \in 1..Len(rows) |-> serialize_task(rows[k])]),
                 store, <<"authorize", "select">>)

create_task(store, user_id, title, description, current_user, seq, now) ==
    IF NotOwnPath(user_id, current_user)
    THEN Outcome(Forbidden("You can only create tasks for yourself", user_id, now),
                 store, <<"authorize">>)
    ELSE LET task == [id |-> tasks_id_seq(seq, store), user_id |-> user_id,
                      title |-> title[1],
                      description |-> IF description = None THEN 0
                                      ELSE description[1],
                      completed |-> FALSE, created_at |-> now, updated_at |-> now]
             saved == Put(store, task)
         IN Outcome(TaskListResponse(HTTP_201_CREATED, "task",
                        <<serialize_task(saved[task.id])>>),
                    saved, <<"authorize", "commit", "refresh">>)

\* A lookup by id followed by an ownership test that answers 403 for a task
\* of another user.
get_task_forbidden_on_foreign(store, user_id, task_id, current_user, now) ==
    IF NotOwnPath(user_id, current_user)
    THEN Outcome(Forbidden("You can only access your own tasks", user_id, now),
                 store, <<"authorize">>)
    ELSE IF task_id \notin DOMAIN store
    THEN Outcome(TaskNotFound(task_id, now), store, <<"authorize", "select">>)
    ELSE IF store[task_id].user_id # user_id
    THEN Outcome(Forbidden("You can only access your own tasks", user_id, now),
                 store, <<"authorize", "select">>)
    ELSE Outcome(TaskListResponse(HTTP_200_OK, "task",
                     <<serialize_task(store[task_id])>>),
                 store, <<"authorize", "select">>)

get_task(store, user_id, task_id, current_user, now) ==
    IF NotOwnPath(user_id, current_user)
    THEN Outcome(Forbidden("You can only access your own tasks", user_id, now),
                 store, <<"authorize">>)
    ELSE LET found == SelectTask(store, task_id, user_id) IN
         IF found = {}
         THEN Outcome(TaskNotFound(task_id, now), store, <<"authorize", "select">>)
         ELSE Outcome(TaskListResponse(HTTP_200_OK, "task",
                          <<serialize_task(store[CHOOSE i \in found : TRUE])>>),
                      store, <<"authorize", "select">>)

\* An update that tests the supplied values for truth (`if request.title:`)
\* where the handler tests them for None.
update_task_if_truthy(store, user_id, task_id, title, description, completed, current_user, now) ==
    IF NotOwnPath(user_id, current_user)
    THEN Outcome(Forbidden("You can only update your own tasks", user_id, now),
                 store, <<"authorize">>)
    ELSE LET found == SelectTask(store, task_id, user_id) IN
         IF found = {}
         THEN Outcome(TaskNotFound(task_id, now), store, <<"authorize", "select">>)
         ELSE LET task == store[CHOOSE i \in found : TRUE]
                  t1 == IF title # None /\ title # Some(0)
                        THEN [task EXCEPT !.title = title[1]] ELSE task
                  t2 == IF description # None /\ description # Some(0)
                        THEN [t1 EXCEPT !.description = description[1]] ELSE t1
                  t3 == IF completed # None /\ completed # Some(FALSE)
                        THEN [t2 EXCEPT !.completed = completed[1]] ELSE t2
                  t4 == [t3 EXCEPT !.updated_at = now]
              IN Outcome(TaskListResponse(HTTP_200_OK, "task", <<serialize_task(t4)>>),
                         Put(store, t4),
                         <<"authorize", "select", "commit", "refresh">>)

\* An update that refreshes updated_at only when a field changed value.
update_task_touch_on_change(store, user_id, task_id, title, description, completed, current_user, now) ==
    IF NotOwnPath(user_id, current_user)
    THEN Outcome(Forbidden("You can only update your own tasks", user_id, now),
                 store, <<"authorize">>)
    ELSE LET found == SelectTask(store, task_id, user_id) IN
         IF found = {}
         THEN Outcome(TaskNotFound(task_id, now), store, <<"authorize", "select">>)
         ELSE LET task == store[CHOOSE i \in found : TRUE]
                  t1 == IF title # None THEN [task EXCEPT !.title = title[1]]
                        ELSE task
                  t2 == IF description # None
                        THEN [t1 EXCEPT !.description = description[1]] ELSE t1
                  t3 == IF completed # None
                        THEN [t2 EXCEPT !.completed = completed[1]] ELSE t2
                  t4 == IF t3 = task THEN task ELSE [t3 EXCEPT !.updated_at = now]
              IN Outcome(TaskListResponse(HTTP_200_OK, "task", <<serialize_task(t4)>>),
                         Put(store, t4),
                         <<"authorize", "select", "commit", "refresh">>)

\* An update that stamps created_at along with updated_at.
update_task_resets_created_at(store, user_id, task_id, title, description, completed, current_user, now) ==
    IF NotOwnPath(user_id, current_user)
    THEN Outcome(Forbidden("You can only update your own tasks", user_id, now),
                 store, <<"authorize">>)
    ELSE LET found == SelectTask(store, task_id, user_id) IN
         IF found = {}
         THEN Outcome(TaskNotFound(task_id, now), store, <<"authorize", "select">>)
         ELSE LET task == store[CHOOSE i \in found : TRUE]
                  t1 == IF title # None THEN [task EXCEPT !.title = title[1]]
                        ELSE task
                  t2 == IF description # None
                        THEN [t1 EXCEPT !.description = description[1]] ELSE t1
                  t3 == IF completed # None
                        THEN [t2 EXCEPT !.completed = completed[1]] ELSE t2
                  t4 == [t3 EXCEPT !.updated_at = now, !.created_at = now]
              IN Outcome(TaskListResponse(HTTP_200_OK, "task", <<serialize_task(t4)>>),
                         Put(store, t4),
                         <<"authorize", "select", "commit", "refresh">>)

update_task(store, user_id, task_id, title, description, completed, current_user, now) ==
    IF NotOwnPath(user_id, current_user)
    THEN Outcome(Forbidden("You can only update your own tasks", user_id, now),
                 store, <<"authorize">>)
    ELSE LET found == SelectTask(store, task_id, user_id) IN
         IF found = {}
         THEN Outcome(TaskNotFound(task_id, now), store, <<"authorize", "select">>)
         ELSE LET task == store[CHOOSE i \in found : TRUE]
                  t1 == IF title # None THEN [task EXCEPT !.title = title[1]]
                        ELSE task
                  t2 == IF description # None
                        THEN [t1 EXCEPT !.description = description[1]] ELSE t1
                  t3 == IF completed # None
                        THEN [t2 EXCEPT !.completed = completed[1]] ELSE t2
                  t4 == [t3 EXCEPT !.updated_at = now]
              IN Outcome(TaskListResponse(HTTP_200_OK, "task", <<serialize_task(t4)>>),
                         Put(store, t4),
                         <<"authorize", "select", "commit", "refresh">>)

\* A delete that answers 204 and leaves the row in the table.
delete_task_keeps_row(store, user_id, task_id, current_user, now) ==
    IF NotOwnPath(user_id, current_user)
    THEN Outcome(Forbidden("You can only delete your own tasks", user_id, now),
                 store, <<"authorize">>)
    ELSE LET found == SelectTask(store, task_id, user_id) IN
         IF found = {}
         THEN Outcome(TaskNotFound(task_id, now), store, <<"authorize", "select">>)
         ELSE Outcome(TaskListResponse(HTTP_204_NO_CONTENT, "none", << >>),
                      store, <<"authorize", "select", "delete", "commit">>)

\* A delete that removes the caller's row first and compares the path owner
\* with the caller afterwards.
delete_task_checks_path_last(store, user_id, task_id, current_user, now) ==
    LET found == SelectTask(store, task_id, current_user) IN
    IF found = {}
    THEN IF NotOwnPath(user_id, current_user)
         THEN Outcome(Forbidden("You can only delete your own tasks", user_id, now),
                      store, <<"select", "authorize">>)
         ELSE Outcome(TaskNotFound(task_id, now), store, <<"select", "authorize">>)
    ELSE IF NotOwnPath(user_id, current_user)
         THEN Outcome(Forbidden("You can only delete your own tasks", user_id, now),
                      Remove(store, CHOOSE i \in found : TRUE),
                      <<"select", "remove", "authorize">>)
         ELSE Outcome(TaskListResponse(HTTP_204_NO_CONTENT, "none", << >>),
                      Remove(store, CHOOSE i \in found : TRUE),
                      <<"authorize", "select", "delete", "commit">>)

delete_task(store, user_id, task_id, current_user, now) ==
    IF NotOwnPath(user_id, current_user)
    THEN Outcome(Forbidden("You can only delete your own tasks", user_id, now),
                 store, <<"authorize">>)
    ELSE LET found == SelectTask(store, task_id, user_id) IN
         IF found = {}
         THEN Outcome(TaskNotFound(task_id, now), store, <<"authorize", "select">>)
         ELSE Outcome(TaskListResponse(HTTP_204_NO_CONTENT, "none", << >>),
                      Remove(store, CHOOSE i \in found : TRUE),
                      <<"authorize", "select", "delete", "commit">>)

\* A toggle that marks the task completed whatever the flag was.
toggle_task_completion_sets_true(store, user_id, task_id, current_user, now) ==
    IF NotOwnPath(user_id, current_user)
    THEN Outcome(Forbidden("You can only update your own tasks", user_id, now),
                 store, <<"authorize">>)
    ELSE LET found == SelectTask(store, task_id, user_id) IN
         IF found = {}
         THEN Outcome(TaskNotFound(task_id, now), store, <<"authorize", "select">>)
         ELSE LET task == store[CHOOSE i \in found : TRUE]
                  t1 == [task EXCEPT !.completed = TRUE]
                  t2 == [t1 EXCEPT !.updated_at = now]
              IN Outcome(TaskListResponse(HTTP_200_OK, "task", <<serialize_task(t2)>>),
                         Put(store, t2),
                         <<"authorize", "select", "commit", "refresh">>)

toggle_task_completion(store, user_id, task_id, current_user, now) ==
    IF NotOwnPath(user_id, current_user)
    THEN Outcome(Forbidden("You can only update your own tasks", user_id, now),
                 store, <<"authorize">>)
    ELSE LET found == SelectTask(store, task_id, user_id) IN
         IF found = {}
         THEN Outcome(TaskNotFound(task_id, now), store, <<"authorize", "select">>)
         ELSE LET task == store[CHOOSE i \in found : TRUE]
                  t1 == [task EXCEPT !.completed = ~task.completed]
                  t2 == [t1 EXCEPT !.updated_at = now]
              IN Outcome(TaskListResponse(HTTP_200_OK, "task", <<serialize_task(t2)>>),
                         Put(store, t2),
                         <<"authorize", "select", "commit", "refresh">>)

\* A task request as the framework runs it: the get_current_user dependency,
\* then the request model, then the handler.
Dispatch(auth, valid, store, handled) ==
    IF ~auth.ok THEN Outcome(auth.resp, store, <<"get_current_user">>)
    ELSE IF ~valid
    THEN Outcome(RequestValidationError, store, <<"get_current_user", "validate">>)
    ELSE Outcome(handled.resp, handled.tasks,
                 <<"get_current_user", "validate">> \o handled.trace)

(***************************************************************************)
(* The requests.                                                           *)
(***************************************************************************)
Request(op, token, user_id, task_id, email, password, title, description, completed) ==
    [op |-> op, token |-> token, user_id |-> user_id, task_id |-> task_id,
     email |-> email, password |-> password, title |-> title,
     description |-> description, completed |-> completed]

AuthRequest(op, email, password) ==
    Request(op, NoToken, Absent, None, email, password, None, None, None)

TaskRequest(op, token, user_id, task_id, title, description, completed) ==
    Request(op, token, user_id, task_id, Absent, Absent, title, description,
            completed)

NoRequest == AuthRequest("none", Absent, Absent)

NoResponse == ErrorResponse(0, Absent, Absent, NoDetails, 0)

\* Tokens a client can present: the ones the service issued, and ones it
\* never issued (a wrong signature, not a JWT at all, a signed token with
\* no sub claim).
IssuedTokens == {i.token : i \in issued}

BadSignature(sub, now) ==
    [sig |-> "bad", sub |-> sub, exp |-> timegm(now + TokenLifetime),
     iat |-> timegm(now)]

Malformed == [sig |-> "malformed", sub |-> Absent, exp |-> 0, iat |-> 0]

NoSubject(now) ==
    [sig |-> "good", sub |-> Absent, exp |-> timegm(now + TokenLifetime),
     iat |-> timegm(now)]

ForeignTokens(now) ==
    {BadSignature(u, now) : u \in UserIds} \cup {Malformed, NoSubject(now)}

Tokens == IssuedTokens \cup ForeignTokens(clock)

\* issued remembers every token handed out, with the tick it was made at.
Issue(token) ==
    issued' = IF token # NoToken
              THEN issued \cup {[token |-> token, at |-> clock]}
              ELSE issued

(***************************************************************************)
(* Phase I: the console application's in-memory store                      *)
(* (todo-app/src/phase-1: models.py, task_manager.py).  A title or a       *)
(* description is represented by its length.                               *)
(***************************************************************************)
NoError == Absent

\* What a call on the manager leaves behind: the manager, and the value
\* returned or the message of the ValueError raised.
Result(m, returned, raised) ==
    [manager |-> m, returned |-> returned, raised |-> raised]

\* models.create_task: validation, then the Task dictionary.
models_create_task(task_id, title, description) ==
    IF title = 0
    THEN [task |-> None, raised |-> "Title cannot be empty."]
    ELSE IF title > 200
    THEN [task |-> None, raised |-> "Title must be 200 characters or less."]
    ELSE IF description > 1000
    THEN [task |-> None,
          raised |-> "Description must be 1000 characters or less."]
    ELSE [task |-> Some([id |-> task_id, title |-> title,
                         description |-> description, completed |-> FALSE]),
          raised |-> NoError]

TaskManager_init == [tasks |-> << >>, next_task_id |-> 1]

TaskManager_add_task(m, title, description) ==
    LET made == models_create_task(m.next_task_id, title, description) IN
    IF made.raised # NoError THEN Result(m, None, made.raised)
    ELSE Result([tasks |-> [i \in DOMAIN m.tasks \cup {m.next_task_id} |->
                              IF i = m.next_task_id THEN made.task[1]
                              ELSE m.tasks[i]],
                 next_task_id |-> m.next_task_id + 1],
                made.task, NoError)

\* task is the dictionary stored in self.tasks, not a copy: an assignment to
\* task["title"] is in the store at once, whatever the statements after it do.
TaskManager_update_task(m, task_id, title, description) ==
    IF task_id \notin DOMAIN m.tasks THEN Result(m, None, NoError)
    ELSE IF title # None /\ title[1] = 0
    THEN Result(m, None, "Title cannot be empty.")
    ELSE IF title # None /\ title[1] > 200
    THEN Result(m, None, "Title must be 200 characters or less.")
    ELSE LET m1 == IF title # None
                   THEN [m EXCEPT !.tasks[task_id].title = title[1]]
                   ELSE m
         IN IF description # None /\ description[1] > 1000
            THEN Result(m1, None, "Description must be 1000 characters or less.")
            ELSE LET m2 == IF description # None
                           THEN [m1 EXCEPT !.tasks[task_id].description
                                              = description[1]]
                           ELSE m1
                 IN Result(m2, Some(m2.tasks[task_id]), NoError)

\* self.tasks.pop(task_id, None)
TaskManager_delete_task(m, task_id) ==
    IF task_id \notin DOMAIN m.tasks THEN Result(m, None, NoError)
    ELSE Result([m EXCEPT !.tasks = [i \in DOMAIN m.tasks \ {task_id} |->
                                       m.tasks[i]]],
                Some(m.tasks[task_id]), NoError)

TaskManager_toggle_complete(m, task_id) ==
    IF task_id \notin DOMAIN m.tasks THEN Result(m, None, NoError)
    ELSE LET m1 == [m EXCEPT !.tasks[task_id].completed = ~@] IN
         Result(m1, Some(m1.tasks[task_id]), NoError)

Call(op, task_id, title, description, out) ==
    [op |-> op, task_id |-> task_id, title |-> title,
     description |-> description, returned |-> out.returned,
     raised |-> out.raised]

NoCall == Call("none", None, None, None, Result(TaskManager_init, None, NoError))

Init ==
    /\ users = << >>
    /\ tasks = << >>
    /\ nextId = 1
    /\ usedIds = {}
    /\ issued = {}
    /\ clock = 0
    /\ last = [req |-> NoRequest, current_user |-> Absent, valid |-> TRUE,
               resp |-> NoResponse, trace |-> << >>]
    /\ sessions = << >>
    /\ manager = TaskManager_init
    /\ called = NoCall

Register(raw, password, name, new_id, salt) ==
    LET out == register(users, EmailStr(raw), password, name, new_id, salt, clock) IN
    /\ Issue(out.resp.token)
    /\ users' = out.users
    /\ last' = [req |-> AuthRequest("register", raw, password),
                current_user |-> Absent, valid |-> TRUE,
                resp |-> out.resp, trace |-> out.trace]
    /\ UNCHANGED <<tasks, nextId, usedIds, clock, sessions, manager, called>>

Login(raw, password) ==
    LET out == login(users, EmailStr(raw), password, clock) IN
    /\ Issue(out.resp.token)
    /\ last' = [req |-> AuthRequest("login", raw, password),
                current_user |-> Absent, valid |-> TRUE,
                resp |-> out.resp, trace |-> out.trace]
    /\ UNCHANGED <<users, tasks, nextId, usedIds, clock, sessions, manager,
                   called>>

\* What every task endpoint leaves behind: the store and the record of the
\* request and its answer.
Served(req, auth, valid, out) ==
    /\ tasks' = out.tasks
    /\ last' = [req |-> req, current_user |-> auth.user_id, valid |-> valid,
                resp |-> out.resp, trace |-> out.trace]

ListTasks(token, user_id) ==
    LET auth == get_current_user(token, clock) IN
    \E rows \in SelectTasksOrdered(tasks, user_id) :
      /\ Served(TaskRequest("list", token, user_id, None, None, None, None),
                auth, TRUE,
                Dispatch(auth, TRUE, tasks,
                         list_tasks(tasks, user_id, auth.user_id, rows, clock)))
      /\ UNCHANGED <<users, nextId, usedIds, issued, clock, sessions,
                     manager, called>>

CreateTask(token, user_id, title, description) ==
    LET auth == get_current_user(token, clock)
        valid == CreateTaskRequest(title, description)
        out == Dispatch(auth, valid, tasks,
                        create_task(tasks, user_id, title, description,
                                    auth.user_id, nextId, clock))
        new == DOMAIN out.tasks \ DOMAIN tasks
    IN /\ nextId <= MaxTasks
       /\ Served(TaskRequest("create", token, user_id, None, title, description,
                             None), auth, valid, out)
       /\ nextId' = IF out.resp.status = HTTP_201_CREATED THEN nextId + 1
                    ELSE nextId
       /\ usedIds' = usedIds \cup {out.resp.tasks[k].id : k \in 1..Len(out.resp.tasks)}
       /\ UNCHANGED <<users, issued, clock, sessions, manager, called>>

GetTask(token, user_id, task_id) ==
    LET auth == get_current_user(token, clock) IN
    /\ Served(TaskRequest("get", token, user_id, Some(task_id), None, None, None),
              auth, TRUE,
              Dispatch(auth, TRUE, tasks,
                       get_task(tasks, user_id, task_id, auth.user_id, clock)))
    /\ UNCHANGED <<users, nextId, usedIds, issued, clock, sessions,
                   manager, called>>

UpdateTask(token, user_id, task_id, title, description, completed) ==
    LET auth == get_current_user(token, clock)
        valid == UpdateTaskRequest(title, description, completed)
    IN /\ Served(TaskRequest("update", token, user_id, Some(task_id), title,
                             description, completed), auth, valid,
                 Dispatch(auth, valid, tasks,
                          update_task(tasks, user_id, task_id, title, description,
                                      completed, auth.user_id, clock)))
       /\ UNCHANGED <<users, nextId, usedIds, issued, clock, sessions,
                      manager, called>>

DeleteTask(token, user_id, task_id) ==
    LET auth == get_current_user(token, clock) IN
    /\ Served(TaskRequest("delete", token, user_id, Some(task_id), None, None, None),
              auth, TRUE,
              Dispatch(auth, TRUE, tasks,
                       delete_task(tasks, user_id, task_id, auth.user_id, clock)))
    /\ UNCHANGED <<users, nextId, usedIds, issued, clock, sessions,
                   manager, called>>

ToggleTask(token, user_id, task_id) ==
    LET auth == get_current_user(token, clock) IN
    /\ Served(TaskRequest("toggle", token, user_id, Some(task_id), None, None, None),
              auth, TRUE,
              Dispatch(auth, TRUE, tasks,
                       toggle_task_completion(tasks, user_id, task_id,
                                              auth.user_id, clock)))
    /\ UNCHANGED <<users, nextId, usedIds, issued, clock, sessions,
                   manager, called>>

Tick(d, limit) ==
    /\ clock + d <= limit
    /\ clock' = clock + d
    /\ UNCHANGED <<users, tasks, nextId, usedIds, issued, last, sessions,
                   manager, called>>

(***************************************************************************)
(* Requests in flight.  Every request runs in a database session of its    *)
(* own (db.py: get_session), in a transaction at the isolation level of    *)
(* the engine's default (read committed): between the select of a request  *)
(* and its commit, other sessions read and commit.                         *)
(***************************************************************************)
Session(op, token, user_id, row, email, password, name) ==
    [op |-> op, token |-> token, user_id |-> user_id, row |-> row,
     email |-> email, password |-> password, name |-> name]

Begin(s, session) ==
    sessions' = [i \in DOMAIN sessions \cup {s} |->
                   IF i = s THEN session ELSE sessions[i]]

End(s) == sessions' = [i \in DOMAIN sessions \ {s} |-> sessions[i]]

\* toggle_task_completion from `task.completed = not task.completed` on, for
\* the row object the session loaded: the flush writes the columns that were
\* assigned (UPDATE tasks SET completed=.., updated_at=.. WHERE id=..) with
\* the values computed from the loaded object, and fails when the row is no
\* longer there; the refresh reads the row back.
toggle_commit(store, row, now) ==
    IF row.id \notin DOMAIN store
    THEN Outcome(Unhandled("StaleDataError"), store,
                 <<"authorize", "select", "commit_failed">>)
    ELSE LET saved == [store[row.id] EXCEPT !.completed = ~row.completed,
                                            !.updated_at = now]
         IN Outcome(TaskListResponse(HTTP_200_OK, "task", <<serialize_task(saved)>>),
                    Put(store, saved),
                    <<"authorize", "select", "commit", "refresh">>)

\* A toggle up to its select, the row found.  (A toggle that ends before
\* its select, or finds no row, is a ToggleTask step.)
ToggleSelect(s, token, user_id, task_id) ==
    LET auth == get_current_user(token, clock)
        found == SelectTask(tasks, task_id, user_id)
    IN /\ s \notin DOMAIN sessions
       /\ auth.ok
       /\ ~NotOwnPath(user_id, auth.user_id)
       /\ found # {}
       /\ Begin(s, Session("toggle", token, user_id,
                           Some(tasks[CHOOSE i \in found : TRUE]),
                           Absent, Absent, Absent))
       /\ UNCHANGED <<users, tasks, nextId, usedIds, issued, clock, last,
                      manager, called>>

\* The rest of that toggle.
ToggleCommit(s) ==
    /\ s \in DOMAIN sessions
    /\ sessions[s].op = "toggle"
    /\ LET this == sessions[s]
           row == this.row[1]
           out == toggle_commit(tasks, row, clock)
       IN /\ tasks' = out.tasks
          /\ last' = [req |-> TaskRequest("toggle", this.token, this.user_id,
                                          Some(row.id), None, None, None),
                      current_user |-> this.user_id, valid |-> TRUE,
                      resp |-> out.resp,
                      trace |-> <<"get_current_user", "validate">> \o out.trace]
    /\ End(s)
    /\ UNCHANGED <<users, nextId, usedIds, issued, clock, manager, called>>

\* A register up to its lookup of the email, no user found.  (A register
\* that finds the email taken is a Register step.)
RegisterSelect(s, raw, password, name) ==
    /\ s \notin DOMAIN sessions
    /\ UserByEmail(users, EmailStr(raw)) = {}
    /\ Begin(s, Session("register", NoToken, Absent, None, raw, password, name))
    /\ UNCHANGED <<users, tasks, nextId, usedIds, issued, clock, last,
                   manager, called>>

\* The rest of that register: the id and the hash, the insert, the token.
RegisterCommit(s, new_id, salt) ==
    /\ s \in DOMAIN sessions
    /\ sessions[s].op = "register"
    /\ LET this == sessions[s]
           out == register_insert(users, EmailStr(this.email), this.password,
                                  this.name, new_id, salt, clock)
       IN /\ Issue(out.resp.token)
          /\ users' = out.users
          /\ last' = [req |-> AuthRequest("register", this.email, this.password),
                      current_user |-> Absent, valid |-> TRUE,
                      resp |-> out.resp, trace |-> out.trace]
    /\ End(s)
    /\ UNCHANGED <<tasks, nextId, usedIds, clock, manager, called>>

(***************************************************************************)
(* Calls on the Phase I manager.                                           *)
(***************************************************************************)
Called(op, task_id, title, description, out) ==
    /\ manager' = out.manager
    /\ called' = Call(op, task_id, title, description, out)
    /\ UNCHANGED <<users, tasks, nextId, usedIds, issued, clock, last, sessions>>

AddTask(title, description) ==
    /\ manager.next_task_id <= MaxTasks
    /\ Called("add_task", None, Some(title), Some(description),
              TaskManager_add_task(manager, title, description))

ManagerUpdateTask(task_id, title, description) ==
    Called("update_task", Some(task_id), title, description,
           TaskManager_update_task(manager, task_id, title, description))

ManagerDeleteTask(task_id) ==
    Called("delete_task", Some(task_id), None, None,
           TaskManager_delete_task(manager, task_id))

ToggleComplete(task_id) ==
    Called("toggle_complete", Some(task_id), None, None,
           TaskManager_toggle_complete(manager, task_id))

(***************************************************************************)
(* Spec: the whole service, the clock moving one tick at a time.           *)
(***************************************************************************)
Next ==
    \/ \E account \in {<<"a@x.com", "usr_1">>, <<"b@x.com", "usr_2">>} :
          Register(account[1], "password1", "A", account[2], "s1")
    \/ \E raw \in {"a@x.com", "b@x.com"} : Login(raw, "password1")
    \/ \E token \in IssuedTokens \cup {BadSignature("usr_1", clock)},
          user_id \in UserIds :
          \/ ListTasks(token, user_id)
          \/ \E title \in {Some(1), Some(201)} :
               CreateTask(token, user_id, title, None)
          \/ \E task_id \in TaskIds : GetTask(token, user_id, task_id)
          \/ \E task_id \in TaskIds :
               UpdateTask(token, user_id, task_id, None, None, Some(TRUE))
          \/ \E task_id \in TaskIds : DeleteTask(token, user_id, task_id)
          \/ \E task_id \in TaskIds : ToggleTask(token, user_id, task_id)
    \/ Tick(1, MaxClock)

Spec == Init /\ [][Next]_vars

(***************************************************************************)
(* SpecAuth: registration and login alone, with every email, password and  *)
(* salt of the input universes.                                            *)
(***************************************************************************)
NextAuth ==
    \/ \E raw \in RawEmails, password \in Passwords, name \in Names,
          new_id \in UserIds, salt \in Salts :
          Register(raw, password, name, new_id, salt)
    \/ \E raw \in RawEmails, password \in Passwords : Login(raw, password)
    \/ Tick(1, MaxClock)

SpecAuth == Init /\ [][NextAuth]_vars

(***************************************************************************)
(* SpecToken: one account whose tokens are issued within the first second; *)
(* the clock then leaps to one tick before the end of a token lifetime and *)
(* runs on, tick by tick, to MaxSkew ticks past it, while requests present *)
(* issued and foreign tokens.                                              *)
(***************************************************************************)
Early == clock < TicksPerSecond

NextToken ==
    \/ /\ Early
       /\ \E new_id \in UserIds : Register("a@x.com", "password1", "A", new_id, "s1")
    \/ Early /\ Login("a@x.com", "password1")
    \/ \E token \in Tokens, user_id \in UserIds :
          \/ ListTasks(token, user_id)
          \/ Early /\ CreateTask(token, user_id, Some(1), None)
          \/ DeleteTask(token, user_id, 1)
    \/ Early /\ Tick(1, TicksPerSecond - 1)
    \/ Early /\ Tick(TokenLifetime - 1, TokenLifetime + MaxSkew)
    \/ ~Early /\ Tick(1, TokenLifetime + MaxSkew)

SpecToken == Init /\ [][NextToken]_vars

(***************************************************************************)
(* SpecEdit: one account and one task, toggled by its owner and updated    *)
(* with every combination of present and absent fields, the values         *)
(* supplied being equal to or different from the stored ones.              *)
(***************************************************************************)
Flags == {None, Some(FALSE), Some(TRUE)}

NextEdit ==
    \/ Register("a@x.com", "password1", "A", "usr_1", "s1")
    \/ \E token \in IssuedTokens :
          \/ /\ tasks = << >>
             /\ \E description \in {None, Some(DescriptionMaxLength)} :
                  CreateTask(token, "usr_1", Some(TitleMinLength), description)
          \/ \E task_id \in TaskIds,
                title \in {None, Some(TitleMinLength), Some(TitleMaxLength)},
                description \in {None, Some(0), Some(DescriptionMaxLength)},
                completed \in Flags :
               UpdateTask(token, "usr_1", task_id, title, description, completed)
          \/ \E task_id \in TaskIds : ToggleTask(token, "usr_1", task_id)
    \/ Tick(1, MaxClock)

SpecEdit == Init /\ [][NextEdit]_vars

(***************************************************************************)
(* SpecLimits: one account holding one task at a time; creates and updates *)
(* carry titles and descriptions at and beside the limits of the request   *)
(* models, and requests come with and without a valid token, under the     *)
(* caller's path and under another one.                                    *)
(***************************************************************************)
Titles ==
    {None, Some(TitleMinLength - 1), Some(TitleMinLength), Some(TitleMaxLength),
     Some(TitleMaxLength + 1)}

Descriptions ==
    {None, Some(0), Some(DescriptionMaxLength), Some(DescriptionMaxLength + 1)}

NextLimits ==
    \/ Register("a@x.com", "password1", "A", "usr_1", "s1")
    \/ \E token \in IssuedTokens \cup {BadSignature("usr_1", clock)},
          user_id \in UserIds :
          \/ /\ tasks = << >>
             /\ \E title \in Titles, description \in Descriptions :
                  CreateTask(token, user_id, title, description)
          \/ \E task_id \in TaskIds, title \in Titles,
                description \in Descriptions :
               UpdateTask(token, user_id, task_id, title, description, None)
          \/ \E task_id \in TaskIds : ToggleTask(token, user_id, task_id)
          \/ \E task_id \in TaskIds : DeleteTask(token, user_id, task_id)
    \/ Tick(1, MaxClock)

SpecLimits == Init /\ [][NextLimits]_vars

(***************************************************************************)
(* SpecDelete: one account creating, reading, changing, listing and        *)
(* deleting its tasks, so that ids of deleted tasks are addressed again    *)
(* and tasks are created after a delete.                                   *)
(***************************************************************************)
NextDelete ==
    \/ Register("a@x.com", "password1", "A", "usr_1", "s1")
    \/ \E token \in IssuedTokens :
          \/ ListTasks(token, "usr_1")
          \/ CreateTask(token, "usr_1", Some(TitleMinLength), None)
          \/ \E task_id \in TaskIds : GetTask(token, "usr_1", task_id)
          \/ \E task_id \in TaskIds :
               UpdateTask(token, "usr_1", task_id, None, None, Some(TRUE))
          \/ \E task_id \in TaskIds : ToggleTask(token, "usr_1", task_id)
          \/ \E task_id \in TaskIds : DeleteTask(token, "usr_1", task_id)
    \/ Tick(1, MaxClock)

SpecDelete == Init /\ [][NextDelete]_vars

(***************************************************************************)
(* SpecOwners: two accounts, registered and logged in, creating, updating  *)
(* and toggling tasks under their own path and under the other's.          *)
(***************************************************************************)
NextOwners ==
    \/ \E raw \in {"a@x.com", "b@x.com"}, new_id \in UserIds :
          Register(raw, "password1", "A", new_id, "s1")
    \/ \E raw \in {"a@x.com", "b@x.com"}, password \in Passwords :
          Login(raw, password)
    \/ \E token \in IssuedTokens, user_id \in UserIds :
          \/ CreateTask(token, user_id, Some(TitleMinLength), None)
          \/ \E task_id \in TaskIds :
               UpdateTask(token, user_id, task_id, None, None, Some(TRUE))
          \/ \E task_id \in TaskIds : ToggleTask(token, user_id, task_id)
    \/ Tick(1, MaxClock)

SpecOwners == Init /\ [][NextOwners]_vars

(***************************************************************************)
(* SpecRace: registrations and toggles in flight at the same time, each    *)
(* split into its select and its commit, next to creates and deletes.      *)
(***************************************************************************)
NextRace ==
    \/ \E s \in SessionIds, raw \in {"a@x.com", "a@X.com"} :
          RegisterSelect(s, raw, "password1", "A")
    \/ \E s \in SessionIds, new_id \in UserIds : RegisterCommit(s, new_id, "s1")
    \/ \E raw \in {"a@x.com", "a@X.com"}, new_id \in UserIds :
          Register(raw, "password1", "A", new_id, "s1")
    \/ \E token \in IssuedTokens :
          \/ CreateTask(token, token.sub, Some(TitleMinLength), None)
          \/ \E task_id \in TaskIds : DeleteTask(token, token.sub, task_id)
          \/ \E s \in SessionIds, task_id \in TaskIds :
               ToggleSelect(s, token, token.sub, task_id)
    \/ \E s \in SessionIds : ToggleCommit(s)
    \/ Tick(1, MaxClock)

SpecRace == Init /\ [][NextRace]_vars

(***************************************************************************)
(* SpecManager: the Phase I manager alone, called with titles and          *)
(* descriptions at and beside the limits, present and absent.              *)
(***************************************************************************)
NextManager ==
    \/ \E title \in {0, 1, 200, 201}, description \in {0, 1000, 1001} :
          AddTask(title, description)
    \/ \E task_id \in TaskIds, title \in Titles, description \in Descriptions :
          ManagerUpdateTask(task_id, title, description)
    \/ \E task_id \in TaskIds : ManagerDeleteTask(task_id)
    \/ \E task_id \in TaskIds : ToggleComplete(task_id)

SpecManager == Init /\ [][NextManager]_vars

(***************************************************************************)
(* Properties.                                                             *)
(***************************************************************************)
TaskOps == {"list", "create", "get", "update", "delete", "toggle"}

IdOps == {"get", "update", "delete", "toggle"}

\* Every step but Tick serves one request, and only Tick moves the clock.
IsRequestStep == clock' = clock

OwnedBy(store, user_id) == {i \in DOMAIN store : store[i].user_id = user_id}

OnlyTasksOf(store, user_id) == [i \in OwnedBy(store, user_id) |-> store[i]]

Returned(resp) == {resp.tasks[k] : k \in 1..Len(resp.tasks)}

\* C1: ownership isolation.  Whatever a request returns is a task of the
\* identity its token was verified for, and a request leaves every task of
\* every other owner in the store exactly as it was.
C1_OwnershipIsolation ==
    [][/\ \A t \in Returned(last'.resp) : t.user_id = last'.current_user
       /\ \A i \in DOMAIN tasks :
            tasks[i].user_id # last'.current_user =>
               i \in DOMAIN tasks' /\ tasks'[i] = tasks[i]]_vars

\* A verified caller has just addressed, under its own path, a task that
\* exists and belongs to somebody else.
C1_Witness ==
    /\ last.req.op \in IdOps
    /\ last.current_user \in DOMAIN users
    /\ last.req.user_id = last.current_user
    /\ last.req.task_id[1] \in DOMAIN tasks
    /\ tasks[last.req.task_id[1]].user_id \in DOMAIN users \ {last.current_user}

IdHandler(op, store, user_id, task_id, title, description, completed, current_user, now) ==
    CASE op = "get" -> get_task(store, user_id, task_id, current_user, now)
      [] op = "update" -> update_task(store, user_id, task_id, title, description,
                                      completed, current_user, now)
      [] op = "delete" -> delete_task(store, user_id, task_id, current_user, now)
      [] op = "toggle" -> toggle_task_completion(store, user_id, task_id,
                                                 current_user, now)

\* C3: a task of another owner is indistinguishable from no task.  (a) The
\* answer of get, update, delete and toggle by a caller under its own path
\* is the answer the same request gets from a store holding the caller's
\* tasks only.  (b) Such a request on an id the caller does not own (foreign
\* or missing alike) is answered 404 TASK_NOT_FOUND with details
\* {task_id}, and leaves the store unchanged.
C3_ForeignLikeMissing ==
    /\ [](\A op \in IdOps, b \in UserIds, id \in TaskIds :
            \A completed \in {None, Some(TRUE)} :
              LET here == IdHandler(op, tasks, b, id, None, None, completed, b, clock)
                  alone == IdHandler(op, OnlyTasksOf(tasks, b), b, id, None, None,
                                     completed, b, clock)
              IN /\ here.resp = alone.resp
                 /\ OnlyTasksOf(here.tasks, b) = alone.tasks)
    /\ [][(/\ IsRequestStep
           /\ last'.req.op \in IdOps
           /\ last'.current_user # Absent
           /\ last'.valid
           /\ last'.req.user_id = last'.current_user
           /\ last'.req.task_id[1] \notin OwnedBy(tasks, last'.current_user))
          => /\ SansTimestamp(last'.resp)
                  = SansTimestamp(TaskNotFound(last'.req.task_id[1], 0))
             /\ tasks' = tasks]_vars

\* An id-addressed request under the caller's own path hit a task of
\* another user and was answered 404.
C3_Witness ==
    /\ last.req.op \in IdOps
    /\ last.resp.status = HTTP_404_NOT_FOUND
    /\ last.req.user_id = last.current_user
    /\ last.req.task_id[1] \in DOMAIN tasks
    /\ tasks[last.req.task_id[1]].user_id # last.current_user

\* A token verify has to refuse at time now: the signature does not
\* validate, it is no JWT at all, its exp claim lies before now, or it has
\* no sub claim.
Refusable(token, now) ==
    \/ token.sig # "good"
    \/ token.exp < timegm(now)
    \/ token.sub = Absent

\* C4: a task request with such a token is answered 401 AUTH_TOKEN_INVALID by
\* get_current_user and nothing else runs: no validation, no handler step,
\* no task in the answer, the store unchanged.
C4_InvalidTokenRejected ==
    [][(/\ IsRequestStep
        /\ last'.req.op \in TaskOps
        /\ Refusable(last'.req.token, clock))
       => /\ last'.resp.status = HTTP_401_UNAUTHORIZED
          /\ last'.resp.code = "AUTH_TOKEN_INVALID"
          /\ last'.resp.shape = "error"
          /\ last'.resp.tasks = << >>
          /\ last'.current_user = Absent
          /\ last'.trace = <<"get_current_user">>
          /\ tasks' = tasks /\ nextId' = nextId /\ users' = users]_vars

\* A delete of an existing task was refused because the owner's own token,
\* issued by the service, had expired.
C4_Witness ==
    /\ last.req.op = "delete"
    /\ last.resp.status = HTTP_401_UNAUTHORIZED
    /\ last.req.token \in IssuedTokens
    /\ last.req.task_id[1] \in DOMAIN tasks
    /\ tasks[last.req.task_id[1]].user_id = last.req.token.sub
    /\ last.req.user_id = last.req.token.sub

Accepts(token, now, user_id) ==
    LET auth == get_current_user(token, now) IN auth.ok /\ auth.user_id = user_id

Rejects(token, now) ==
    LET auth == get_current_user(token, now)
    IN /\ ~auth.ok
       /\ auth.resp.status = HTTP_401_UNAUTHORIZED
       /\ auth.resp.code = "AUTH_TOKEN_INVALID"

\* C5 as stated: a token issued for u at time at verifies as u at every time
\* strictly before at + 7 days and is refused at every time after at + 7 days.
C5_AsStated ==
    \A i \in issued :
       /\ clock < i.at + TokenLifetime => Accepts(i.token, clock, i.token.sub)
       /\ clock > i.at + TokenLifetime => Rejects(i.token, clock)

\* C5, amended: a token issued for u at time at verifies as u at every time
\* strictly before at + 7 days, and is refused with TokenInvalid at every
\* time one second or more after at + 7 days (the expiry is kept and compared
\* in whole seconds, so the token is still accepted until the second in
\* which at + 7 days falls is over); a login, which only issues a token,
\* changes nothing that is stored.
C5_TokenLifetime ==
    /\ [](\A i \in issued :
            /\ i.token.sub \in UserIds
            /\ clock < i.at + TokenLifetime => Accepts(i.token, clock, i.token.sub)
            /\ clock >= i.at + TokenLifetime + TicksPerSecond
                 => Rejects(i.token, clock))
    /\ [][(IsRequestStep /\ last'.req.op = "login")
          => users' = users /\ tasks' = tasks /\ nextId' = nextId]_vars

\* A listing with a token the service issued was refused, a second or more
\* after the token's seven days.
C5_Witness ==
    /\ last.req.op = "list"
    /\ last.resp.status = HTTP_401_UNAUTHORIZED
    /\ \E i \in issued :
         /\ i.token = last.req.token
         /\ last.resp.timestamp.t >= i.at + TokenLifetime + TicksPerSecond

\* C6: a register request with an email the store already holds is answered
\* 400 AUTH_EMAIL_EXISTS, returns no user and no token, issues nothing and
\* leaves the users table (so the holder's id, name and password hash)
\* unchanged; the emails of the stored users stay pairwise different.
C6_DuplicateEmailRefused ==
    /\ [](\A u, v \in DOMAIN users : users[u].email = users[v].email => u = v)
    /\ [][(/\ IsRequestStep
           /\ last'.req.op = "register"
           /\ UserByEmail(users, last'.req.email) # {})
          => /\ last'.resp.status = HTTP_400_BAD_REQUEST
             /\ last'.resp.code = "AUTH_EMAIL_EXISTS"
             /\ last'.resp.details = Details(Absent, None, last'.req.email)
             /\ last'.resp.user = NoUser
             /\ last'.resp.token = NoToken
             /\ users' = users
             /\ issued' = issued]_vars

\* A second registration with a stored email was answered 400.
C6_Witness ==
    /\ last.req.op = "register"
    /\ last.resp.status = HTTP_400_BAD_REQUEST
    /\ UserByEmail(users, last.req.email) # {}

\* The password a stored user registered with differs from the one given.
WrongPassword(db, email, password) ==
    \E u \in UserByEmail(db, email) : db[u].password_hash.digest[2] # password

\* C7: a login with an email no user has, and a login with a user's email
\* and a password that is not the user's, get the same answer: 401
\* AUTH_INVALID_CREDENTIALS, "Invalid email or password", empty details, no
\* user and no token; nothing stored changes and no token is issued.
C7_LoginFailuresAlike ==
    /\ [](\A e1, e2 \in RawEmails, p1, p2 \in Passwords :
            (UserByEmail(users, EmailStr(e1)) = {}
               /\ WrongPassword(users, EmailStr(e2), p2))
            => login(users, EmailStr(e1), p1, clock).resp
                 = login(users, EmailStr(e2), p2, clock).resp)
    /\ [][(/\ IsRequestStep
           /\ last'.req.op = "login"
           /\ \/ UserByEmail(users, EmailStr(last'.req.email)) = {}
              \/ WrongPassword(users, EmailStr(last'.req.email),
                               last'.req.password))
          => /\ SansTimestamp(last'.resp) = SansTimestamp(InvalidCredentials(0))
             /\ last'.resp.status = HTTP_401_UNAUTHORIZED
             /\ last'.resp.token = NoToken
             /\ users' = users /\ issued' = issued /\ tasks' = tasks]_vars

\* A login with a registered email and another password was answered 401
\* while an email is still unregistered.
C7_Witness ==
    /\ last.req.op = "login"
    /\ last.resp.status = HTTP_401_UNAUTHORIZED
    /\ WrongPassword(users, EmailStr(last.req.email), last.req.password)
    /\ \E e \in RawEmails : UserByEmail(users, EmailStr(e)) = {}

\* C8: every login attempt runs the password hash verification, whether or
\* not a user with the email exists.
C8_HashAlwaysVerified ==
    last.req.op = "login" =>
       \E k \in 1..Len(last.trace) : last.trace[k] = "verify_password"

\* C9: a create answered 201 adds exactly one row and changes no other; the
\* row's owner is the verified caller, completed is false, created_at and
\* updated_at both are the time of the request, title and description are
\* the request's, and its id was never given to a task before; the answer
\* is the serialized stored row, and so is the answer of a get by the owner
\* on that id.
C9_CreateAddsOneFreshTask ==
    [][(/\ IsRequestStep
        /\ last'.req.op = "create"
        /\ last'.resp.status = HTTP_201_CREATED)
       => LET new == DOMAIN tasks' \ DOMAIN tasks IN
          /\ Cardinality(new) = 1
          /\ \A i \in DOMAIN tasks : i \in DOMAIN tasks' /\ tasks'[i] = tasks[i]
          /\ \A i \in new :
               LET t == tasks'[i] IN
               /\ t.id = i
               /\ i \notin usedIds
               /\ t.user_id = last'.current_user
               /\ t.user_id = last'.req.user_id
               /\ t.completed = FALSE
               /\ t.created_at = clock /\ t.updated_at = clock
               /\ t.title = last'.req.title[1]
               /\ t.description = 0
               /\ last'.resp.tasks = <<serialize_task(t)>>
               /\ get_task(tasks', t.user_id, i, t.user_id, clock).resp.tasks
                    = <<serialize_task(t)>>]_vars

\* A create succeeded, after the clock had moved, in a store from which a
\* task had been deleted before.
C9_Witness ==
    /\ last.req.op = "create"
    /\ last.resp.status = HTTP_201_CREATED
    /\ usedIds \ DOMAIN tasks # {}
    /\ last.resp.tasks[1].created_at.t > 0

\* C10: a listing by the owner is answered 200 with exactly the serialized
\* rows the store holds for that owner, each once and none of another owner,
\* created_at never increasing along the list; with no rows the answer is 200
\* and the empty list; the listing changes nothing that is stored.
C10_ListOwnTasksNewestFirst ==
    [][(/\ IsRequestStep
        /\ last'.req.op = "list"
        /\ last'.current_user # Absent
        /\ last'.req.user_id = last'.current_user)
       => LET got == last'.resp.tasks IN
          /\ last'.resp.status = HTTP_200_OK
          /\ last'.resp.shape = "list"
          /\ Returned(last'.resp)
               = {serialize_task(tasks[i]) : i \in OwnedBy(tasks, last'.req.user_id)}
          /\ Len(got) = Cardinality(OwnedBy(tasks, last'.req.user_id))
          /\ \A a, b \in 1..Len(got) :
               a < b => got[a].created_at.t >= got[b].created_at.t
          /\ tasks' = tasks /\ users' = users /\ nextId' = nextId]_vars

\* A listing returned two tasks created at different times.
C10_Witness ==
    /\ last.req.op = "list"
    /\ last.resp.status = HTTP_200_OK
    /\ Len(last.resp.tasks) = 2
    /\ last.resp.tasks[1].created_at # last.resp.tasks[2].created_at

\* A listing by a registered owner without tasks, while another owner has
\* one, returned the empty list.
C10_WitnessEmpty ==
    /\ last.req.op = "list"
    /\ last.resp.status = HTTP_200_OK
    /\ last.resp.tasks = << >>
    /\ tasks # << >>

\* C11: partial update.  An update answered 200 leaves each of title,
\* description and completed that the request does not carry at its stored
\* value and sets each one the request carries to the value supplied, a
\* false flag and an empty description included; the answer is the stored
\* row.  (The request model reads a JSON null as a field that is absent.)
C11_PartialUpdate ==
    [][(/\ IsRequestStep
        /\ last'.req.op = "update"
        /\ last'.resp.status = HTTP_200_OK)
       => LET req == last'.req
              i == req.task_id[1]
          IN /\ i \in DOMAIN tasks /\ i \in DOMAIN tasks'
             /\ tasks'[i].title = IF req.title = None THEN tasks[i].title
                                  ELSE req.title[1]
             /\ tasks'[i].description = IF req.description = None
                                        THEN tasks[i].description
                                        ELSE req.description[1]
             /\ tasks'[i].completed = IF req.completed = None
                                      THEN tasks[i].completed
                                      ELSE req.completed[1]
             /\ last'.resp.tasks = <<serialize_task(tasks'[i])>>]_vars

\* An update carrying completed=false and an empty description, and no
\* title, succeeded on a task whose title an earlier update had changed:
\* the flag is clear, the description empty, the title still the changed one.
C11_Witness ==
    /\ last.req.op = "update"
    /\ last.resp.status = HTTP_200_OK
    /\ last.req.title = None
    /\ last.req.description = Some(0)
    /\ last.req.completed = Some(FALSE)
    /\ tasks[last.req.task_id[1]].title = TitleMaxLength
    /\ tasks[last.req.task_id[1]].description = 0
    /\ ~tasks[last.req.task_id[1]].completed

\* C12: every update answered 200 sets the task's updated_at to the time of
\* the request, whether the request carries no field at all, values equal
\* to the stored ones, or new values; the answer shows that updated_at.
C12_UpdateRefreshesTimestamp ==
    [][(/\ IsRequestStep
        /\ last'.req.op = "update"
        /\ last'.resp.status = HTTP_200_OK)
       => LET i == last'.req.task_id[1] IN
          /\ i \in DOMAIN tasks'
          /\ tasks'[i].updated_at = clock
          /\ last'.resp.tasks[1].updated_at = IsoZ(clock, TRUE)]_vars

\* An update carrying no field at all succeeded after the clock had moved
\* on from the creation of the task.
C12_Witness ==
    /\ last.req.op = "update"
    /\ last.resp.status = HTTP_200_OK
    /\ last.req.title = None
    /\ last.req.description = None
    /\ last.req.completed = None
    /\ tasks[last.req.task_id[1]].updated_at > tasks[last.req.task_id[1]].created_at

\* The store after the owner of task i has toggled it once more.
Toggled(store, i) ==
    toggle_task_completion(store, store[i].user_id, i, store[i].user_id, clock).tasks

\* C13: toggle is involutive.  A toggle answered 200 negates completed, sets
\* updated_at to the time of the request and leaves id, owner, title,
\* description and created_at (and every other row) as they were, whatever
\* the flag was; and in every reachable state two successive toggles of a
\* task by its owner give back the flag the task has.
C13_ToggleInvolutive ==
    /\ [](\A i \in DOMAIN tasks :
            Toggled(Toggled(tasks, i), i)[i].completed = tasks[i].completed)
    /\ [][(/\ IsRequestStep
           /\ last'.req.op = "toggle"
           /\ last'.resp.status = HTTP_200_OK)
          => LET i == last'.req.task_id[1] IN
             /\ i \in DOMAIN tasks
             /\ tasks' = [tasks EXCEPT ![i] = [@ EXCEPT !.completed = ~@,
                                                       !.updated_at = clock]]
             /\ last'.resp.tasks = <<serialize_task(tasks'[i])>>]_vars

\* A toggle has just cleared the flag of a task, later than the task was
\* created: the task had been completed before.
C13_Witness ==
    /\ last.req.op = "toggle"
    /\ last.resp.status = HTTP_200_OK
    /\ ~tasks[last.req.task_id[1]].completed
    /\ tasks[last.req.task_id[1]].updated_at > tasks[last.req.task_id[1]].created_at

\* The ids of the tasks that were deleted: given to a task once, and not in
\* the table.
Deleted == usedIds \ DOMAIN tasks

\* C14: delete is permanent.  A delete answered 204 removes the addressed
\* row and leaves every other row as it was; the id of a deleted task never
\* is in the table again (no create is given it); every later get, update,
\* toggle or delete of that id by a verified caller under its own path is
\* answered 404 TASK_NOT_FOUND and changes nothing; and no answer, a
\* listing included, carries a task with that id.
C14_DeleteIsPermanent ==
    [][/\ \A i \in Deleted : i \notin DOMAIN tasks'
       /\ \A t \in Returned(last'.resp) : t.id \notin Deleted
       /\ (/\ IsRequestStep
           /\ last'.req.op = "delete"
           /\ last'.resp.status = HTTP_204_NO_CONTENT)
          => /\ last'.req.task_id[1] \in DOMAIN tasks
             /\ tasks' = Remove(tasks, last'.req.task_id[1])
       /\ (/\ IsRequestStep
           /\ last'.req.op \in IdOps
           /\ last'.current_user # Absent
           /\ last'.valid
           /\ last'.req.user_id = last'.current_user
           /\ last'.req.task_id[1] \in Deleted)
          => /\ last'.resp = TaskNotFound(last'.req.task_id[1], clock)
             /\ tasks' = tasks]_vars

\* A delete of an id deleted before has just been answered 404, while the
\* table holds a task that was created after that id was given out.
C14_Witness ==
    /\ last.req.op = "delete"
    /\ last.resp.status = HTTP_404_NOT_FOUND
    /\ last.req.task_id[1] \in Deleted
    /\ \E j \in DOMAIN tasks : j > last.req.task_id[1]

\* A title of 1..200 characters; a description, when there is one, of at
\* most 1000.
TitleInBounds(title) == title[1] >= 1 /\ title[1] <= 200

DescriptionInBounds(description) ==
    description = None \/ (description[1] >= 0 /\ description[1] <= 1000)

\* C15: the length limits.  For a verified caller, a create whose title has
\* 0 or more than 200 characters, or whose description has more than 1000,
\* is answered 422 ValidationError and stores nothing; a create under the
\* caller's own path with a title of 1..200 and a description of 0..1000
\* characters (or none) is answered 201 and stores them.  An update whose
\* title or description, when supplied, breaks the same limits is answered
\* 422 and leaves the store unchanged; within the limits, an update of an
\* own task is answered 200.
C15_LengthLimits ==
    [][(/\ IsRequestStep
        /\ last'.req.op \in {"create", "update"}
        /\ last'.current_user # Absent)
       => LET req == last'.req
              create == req.op = "create"
              bad == \/ (req.title # None /\ ~TitleInBounds(req.title))
                     \/ ~DescriptionInBounds(req.description)
              own == req.user_id = last'.current_user
          IN /\ bad => /\ last'.resp.status = HTTP_422_UNPROCESSABLE
                       /\ last'.resp.code = "ValidationError"
                       /\ tasks' = tasks /\ nextId' = nextId
             /\ (~bad /\ own /\ create /\ req.title # None)
                  => /\ last'.resp.status = HTTP_201_CREATED
                     /\ \E i \in DOMAIN tasks' \ DOMAIN tasks :
                          /\ tasks'[i].title = req.title[1]
                          /\ tasks'[i].description =
                               IF req.description = None THEN 0
                               ELSE req.description[1]
             /\ (~bad /\ own /\ ~create
                   /\ req.task_id[1] \in OwnedBy(tasks, last'.current_user))
                  => last'.resp.status = HTTP_200_OK]_vars

\* An update with a title of 201 characters has just been answered 422 on
\* a task that holds a title of 200 and a description of 1000 characters.
C15_Witness ==
    /\ last.req.op = "update"
    /\ last.resp.status = HTTP_422_UNPROCESSABLE
    /\ last.req.title = Some(201)
    /\ last.current_user = last.req.user_id
    /\ last.req.task_id[1] \in DOMAIN tasks
    /\ tasks[last.req.task_id[1]].title = 200
    /\ tasks[last.req.task_id[1]].description = 1000

\* C16: owner and creation time are set once.  A new row is owned by the
\* subject of the token that created it, is stamped with the time of the
\* request and gets an id no task had before; no request changes the owner
\* or the created_at of a row that stays in the table; and in every
\* reachable state updated_at is not earlier than created_at.
C16_OwnerAndCreationFixed ==
    /\ [](\A i \in DOMAIN tasks :
            tasks[i].id = i /\ tasks[i].updated_at >= tasks[i].created_at)
    /\ [][/\ \A i \in DOMAIN tasks \cap DOMAIN tasks' :
               /\ tasks'[i].user_id = tasks[i].user_id
               /\ tasks'[i].created_at = tasks[i].created_at
          /\ \A i \in DOMAIN tasks' \ DOMAIN tasks :
               /\ i \notin usedIds
               /\ last'.req.op = "create"
               /\ tasks'[i].user_id = last'.req.token.sub
               /\ tasks'[i].user_id \in DOMAIN users
               /\ tasks'[i].created_at = clock]_vars

\* The owner of a task has just updated or toggled it, later than it was
\* created, while the table also holds a task of the other account.
C16_Witness ==
    /\ last.req.op \in {"update", "toggle"}
    /\ last.resp.status = HTTP_200_OK
    /\ LET i == last.req.task_id[1] IN
       /\ tasks[i].user_id = last.current_user
       /\ tasks[i].updated_at > tasks[i].created_at
       /\ \E j \in DOMAIN tasks : tasks[j].user_id # tasks[i].user_id

\* The answers of a task request that failed.
Failures ==
    {HTTP_401_UNAUTHORIZED, HTTP_403_FORBIDDEN, HTTP_404_NOT_FOUND,
     HTTP_422_UNPROCESSABLE}

\* C17: a failed update, delete or toggle has no effect.  When the request
\* is answered 401 (token), 403 (path), 404 (no such task of the caller) or
\* 422 (body), the table holds the same rows with the same fields,
\* updated_at included, as before the request, and no commit was made.
C17_FailureChangesNothing ==
    [][(/\ IsRequestStep
        /\ last'.req.op \in {"update", "delete", "toggle"}
        /\ last'.resp.status \in Failures)
       => /\ tasks' = tasks
          /\ users' = users /\ nextId' = nextId
          /\ \A k \in 1..Len(last'.trace) :
               last'.trace[k] \notin {"commit", "delete", "refresh"}]_vars

\* An update carrying a valid new title together with a description that
\* is too long has just been answered 422; the addressed task, owned by the
\* caller, still has its old title, and the clock has moved since it was
\* last written.
C17_Witness ==
    /\ last.req.op = "update"
    /\ last.resp.status = HTTP_422_UNPROCESSABLE
    /\ last.req.title = Some(TitleMaxLength)
    /\ last.req.description = Some(DescriptionMaxLength + 1)
    /\ last.req.user_id = last.current_user
    /\ last.req.task_id[1] \in DOMAIN tasks
    /\ tasks[last.req.task_id[1]].title = TitleMinLength
    /\ tasks[last.req.task_id[1]].updated_at < clock

\* The sessions that end in this step.
Ending == DOMAIN sessions \ DOMAIN sessions'

\* C18: no lost toggle.  A toggle in flight that commits and is answered
\* 200 leaves the flag of its task the negation of what was stored right
\* before that commit, so that two toggles of one task, in whatever order
\* their selects and commits come, give the flag back.
C18_NoLostToggle ==
    [][\A s \in Ending :
          (sessions[s].op = "toggle" /\ last'.resp.status = HTTP_200_OK)
          => LET i == sessions[s].row[1].id IN
             tasks'[i].completed = ~tasks[i].completed]_vars

\* C19: email uniqueness under concurrent registration.  The users table
\* never holds two rows with one email; and a register in flight that comes
\* to its insert when another request has taken the email in the meantime
\* inserts nothing, issues no token and is answered 400 AUTH_EMAIL_EXISTS.
C19_ConcurrentRegister ==
    /\ [](\A u, v \in DOMAIN users : users[u].email = users[v].email => u = v)
    /\ [][\A s \in Ending :
            (/\ sessions[s].op = "register"
             /\ UserByEmail(users, EmailStr(sessions[s].email)) # {})
            => /\ users' = users
               /\ issued' = issued
               /\ last'.resp = EmailExists(EmailStr(sessions[s].email), clock)]_vars

\* C20: subjects are users.  In every reachable state the sub claim of
\* every token issued by register or login is the id of a row of the users
\* table, the identity a task request was verified for is such an id, and
\* so is the owner of every stored task; no step removes a user or changes
\* a user's row.
C20_SubjectsAreUsers ==
    /\ [](/\ \A i \in issued :
               /\ i.token.sub \in DOMAIN users
               /\ users[i.token.sub].id = i.token.sub
          /\ last.current_user # Absent => last.current_user \in DOMAIN users
          /\ \A i \in DOMAIN tasks : tasks[i].user_id \in DOMAIN users)
    /\ [][\A u \in DOMAIN users : u \in DOMAIN users' /\ users'[u] = users[u]]_vars

\* Both accounts hold a token, the last one issued by a login, and the
\* table holds a task of each account.
C20_Witness ==
    /\ last.req.op = "login"
    /\ last.resp.status = HTTP_200_OK
    /\ {i.token.sub : i \in issued} = UserIds
    /\ {tasks[i].user_id : i \in DOMAIN tasks} = UserIds

\* C21: the Phase I update_task is all-or-nothing.  Whenever a call of
\* update_task raises ValueError (an empty title, a title of more than 200
\* or a description of more than 1000 characters), every task of the
\* manager, title and description included, is as it was before the call,
\* also when a valid new title came together with the invalid description.
C21_UpdateAllOrNothing ==
    [][(called'.op = "update_task" /\ called'.raised # NoError)
       => manager'.tasks = manager.tasks]_vars

====
